---- MODULE Spec2Model ----
(***************************************************************************)
(* Model of the training orchestration of train.py: the loop of train()    *)
(* (discriminator step, adaptive augmentation tuning, R1 step, generator   *)
(* step, EMA update, loss reduction, rank-0 persistence) run by several    *)
(* ranks, and the construction / resume code of __main__.                  *)
(*                                                                         *)
(* Tensors are symbolic sums: a set of <<term, iteration>> pairs, the      *)
(* empty set being the zero tensor.  Generator parameters are integers in  *)
(* fixed point; file names are sequences of one-character strings.         *)
(***************************************************************************)
EXTENDS Integers, Sequences, FiniteSets, TLC

\* ------------------------------------------------------------------ bounds
NRanks == 2
MaxExtra == 2
MaxResumes == 1

Ranks == 0 .. (NRanks - 1)

\* --------------------------------------------------------- Python helpers
Digits == <<"0", "1", "2", "3", "4", "5", "6", "7", "8", "9">>

DigitSet == {Digits[k] : k \in 1..10}

DigitVal(c) == (CHOOSE k \in 1..10 : Digits[k] = c) - 1

RECURSIVE StrNat(_)
StrNat(n) == IF n < 10 THEN <<Digits[n + 1]>>
             ELSE StrNat(n \div 10) \o <<Digits[(n % 10) + 1]>>

\* str(i) for a Python int
Str(n) == IF n < 0 THEN <<"-">> \o StrNat(0 - n) ELSE StrNat(n)

RECURSIVE Zeros(_)
Zeros(n) == IF n <= 0 THEN <<>> ELSE <<"0">> \o Zeros(n - 1)

\* padding that also cuts the string down to the width
ZFillFixedWidth(s, width) ==
    IF Len(s) >= width THEN SubSeq(s, Len(s) - width + 1, Len(s))
    ELSE Zeros(width - Len(s)) \o s

\* str.zfill(width): pads on the left, after a leading sign; never truncates
ZFill(s, width) ==
    IF Len(s) >= width THEN s
    ELSE IF Len(s) > 0 /\ s[1] \in {"+", "-"}
         THEN <<s[1]>> \o Zeros(width - Len(s)) \o Tail(s)
         ELSE Zeros(width - Len(s)) \o s

RECURSIVE DigitsVal(_)
DigitsVal(s) == IF Len(s) = 0 THEN 0
                ELSE 10 * DigitsVal(SubSeq(s, 1, Len(s) - 1)) + DigitVal(s[Len(s)])

\* int(s): an optional sign and at least one decimal digit, ValueError otherwise
ParseInt(s) ==
    LET body == IF Len(s) > 0 /\ s[1] \in {"+", "-"} THEN Tail(s) ELSE s
        neg == Len(s) > 0 /\ s[1] = "-"
    IN  IF Len(body) > 0 /\ \A k \in 1..Len(body) : body[k] \in DigitSet
        THEN [ok |-> TRUE, val |-> IF neg THEN 0 - DigitsVal(body) ELSE DigitsVal(body)]
        ELSE [ok |-> FALSE, val |-> 0]

LastIndexOf(s, c) ==
    IF \E k \in 1..Len(s) : s[k] = c
    THEN CHOOSE k \in 1..Len(s) : s[k] = c /\ \A m \in (k + 1)..Len(s) : s[m] # c
    ELSE 0

\* os.path.basename
Basename(path) == SubSeq(path, LastIndexOf(path, "/") + 1, Len(path))

\* os.path.splitext(name)[0]: the name up to its last dot (a leading dot is no extension)
SplitExtRoot(name) ==
    LET d == LastIndexOf(name, ".")
    IN  IF d > 1 THEN SubSeq(name, 1, d - 1) ELSE name

\* Python's i % n for n # 0: the result has the sign of n
PyMod(a, n) == IF n > 0 THEN a % n ELSE 0 - ((0 - a) % (0 - n))

CheckpointDir == <<"c", "h", "e", "c", "k", "p", "o", "i", "n", "t", "/">>
SampleDir == <<"s", "a", "m", "p", "l", "e", "/">>
PtExt == <<".", "p", "t">>
PngExt == <<".", "p", "n", "g">>

SampleEvery == 100
CheckpointEvery == 10000
NameWidth == 6

\* f"checkpoint/{str(i).zfill(6)}.pt"
CheckpointPath(i) == CheckpointDir \o ZFill(Str(i), NameWidth) \o PtExt

\* f"sample/{str(i).zfill(6)}.png"
SamplePath(i) == SampleDir \o ZFill(Str(i), NameWidth) \o PngExt


\* ------------------------------------------------------------ input sets
None == <<>>

\* global indices of checkpoints left by earlier runs, under names the user gave them
PriorIters == {99, 9999, 999999}

\* checkpoints the user kept under a name that is no number
PriorNames == { <<"l", "a", "t", "e", "s", "t">> }

\* the --ckpt paths a first run can be given
PriorPaths ==
    {CheckpointPath(n) : n \in PriorIters}
        \cup {CheckpointDir \o name \o PtExt : name \in PriorNames}

DRegEverys == {-2, 0, 16}

\* --augment_p in hundredths
AugmentPs == {0, 50}

\* what ada_augment.tune can return, in hundredths
TuneResults == {0, 25}

ParamNames == {"w1", "w2"}

\* the all-reduced generator gradient of one step, times the learning rate
Grads == { [w1 |-> 100, w2 |-> -200], [w1 |-> -300, w2 |-> 100] }

\* Generator(...) as constructed: some initial weights
NewGenerator == [w1 |-> 1000, w2 |-> -2000]

\* accum = 0.5 ** (32 / (10 * 1000)) = 0.99778..., as AccumNum / AccumDen
AccumNum == 9978
AccumDen == 10000

LossKeys == {"d", "real_score", "fake_score", "r1", "g", "sent"}

\* torch.tensor(0.0)
ZeroTensor == {}

\* the state an earlier run stored in a checkpoint the user kept
PriorCheckpoint ==
    [g |-> [w1 |-> 400, w2 |-> -300], d |-> 7, g_ema |-> [w1 |-> 390, w2 |-> -310],
     g_optim |-> 5, d_optim |-> 7, ada_aug_p |-> 10, saved_by |-> "user", saved_i |-> -1]

NoCheckpoint ==
    [g |-> NewGenerator, d |-> 0, g_ema |-> NewGenerator,
     g_optim |-> 0, d_optim |-> 0, ada_aug_p |-> 0, saved_by |-> "none", saved_i |-> -1]

VARIABLES args, disk, samples, resumes, loaded, sync,
          pc, idx, generator, discriminator, g_ema, g_optim, d_optim, encoders,
          ada_aug_p, r1_loss, d_loss, loss_dict, req_grad,
          ncoll, log, last_optim, ran, crash, gen_stepped, reduced_keys

shared == <<args, disk, samples, resumes, loaded, sync>>
models == <<generator, discriminator, g_ema, g_optim, d_optim, encoders>>
locals == <<ada_aug_p, r1_loss, d_loss, loss_dict, req_grad>>
ghosts == <<last_optim, ran, crash, gen_stepped, reduced_keys>>
vars == <<shared, pc, idx, models, locals, ncoll, log, ghosts>>

\* i = idx + args.start_iter
GlobalIndex(r) == idx[r] + args.start_iter

\* ------------------------------------------------------ pure operations
\* the flag argument ignored: every parameter is set to require gradients
requires_gradAlwaysOn(flags, model, flag) == [flags EXCEPT ![model] = TRUE]

\* requires_grad(model, flag): for p in model.parameters(): p.requires_grad = flag
requires_grad(flags, model, flag) == [flags EXCEPT ![model] = flag]

\* the text and image encoder weights loaded from cfg.TRAIN.NET_E
PretrainedEncoders == [text_encoder |-> "NET_E", image_encoder |-> "NET_E_image"]

\* the two weights of the moving average exchanged
accumulateSwapped(model1, model2, decayNum) ==
    [k \in DOMAIN model1 |->
        ((AccumDen - decayNum) * model1[k] + decayNum * model2[k]) \div AccumDen]

\* accumulate(model1, model2, decay): par1[k] = decay * par1[k] + (1 - decay) * par2[k]
accumulate(model1, model2, decayNum) ==
    [k \in DOMAIN model1 |->
        (decayNum * model1[k] + (AccumDen - decayNum) * model2[k]) \div AccumDen]

\* the R1 interval counted from 1 instead of 0
DRegularizeShifted(i, every) == PyMod(i + 1, every) = 0

\* d_regularize = i % args.d_reg_every == 0
DRegularize(i, every) == PyMod(i, every) = 0

\* ada_aug_p = args.augment_p if args.augment_p > 0 else 0.0
InitialAugP(a) == IF a.augment_p > 0 THEN a.augment_p ELSE 0

\* tuning whenever augmentation is on, whatever --augment_p says
AdaptiveWheneverAugment(a) == a.augment

\* if args.augment and args.augment_p == 0
Adaptive(a) == a.augment /\ a.augment_p = 0

\* d_loss = (logistic + (bce_fake + bce_real)) if conditioned else 0
DLoss(conditioned, i) ==
    IF conditioned
    THEN [is_tensor |-> TRUE,
          terms |-> {<<"d_logistic", i>>} \cup ({<<"bce_fake", i>>} \cup {<<"bce_real", i>>})]
    ELSE [is_tensor |-> FALSE, terms |-> {}]

\* the sample written on every rank
ShouldSampleAnyRank(rank, i) == i % SampleEvery = 0

\* if get_rank() == 0: ... if i % 100 == 0
ShouldSample(rank, i) == rank = 0 /\ i % SampleEvery = 0

\* if get_rank() == 0: ... if i % 10000 == 0
ShouldCheckpoint(rank, i) == rank = 0 /\ i % CheckpointEvery = 0

\* the dictionary handed to torch.save
CheckpointContent(r) ==
    [g |-> generator[r], d |-> discriminator[r], g_ema |-> g_ema[r],
     g_optim |-> g_optim[r], d_optim |-> d_optim[r], ada_aug_p |-> ada_aug_p[r],
     saved_by |-> "train", saved_i |-> GlobalIndex(r)]

\* args.start_iter = 0; try: int(splitext(basename(args.ckpt))[0]) except ValueError: pass
StartIter(ckpt) ==
    IF ckpt = None THEN 0
    ELSE LET parsed == ParseInt(SplitExtRoot(Basename(ckpt)))
         IN  IF parsed.ok THEN parsed.val ELSE 0

\* the load_state_dict calls moved inside the try block, after the int()
LoadedModelsIfNumbered(ckpt, files) ==
    IF ckpt = None \/ ~ParseInt(SplitExtRoot(Basename(ckpt))).ok
    THEN [g |-> NewGenerator, d |-> 0, g_ema |-> accumulate(NewGenerator, NewGenerator, 0),
          g_optim |-> 0, d_optim |-> 0]
    ELSE [g |-> files[ckpt].g, d |-> files[ckpt].d, g_ema |-> files[ckpt].g_ema,
          g_optim |-> files[ckpt].g_optim, d_optim |-> files[ckpt].d_optim]

\* the models and optimizers __main__ hands to train()
LoadedModels(ckpt, files) ==
    IF ckpt = None
    THEN [g |-> NewGenerator, d |-> 0, g_ema |-> accumulate(NewGenerator, NewGenerator, 0),
          g_optim |-> 0, d_optim |-> 0]
    ELSE [g |-> files[ckpt].g, d |-> files[ckpt].d, g_ema |-> files[ckpt].g_ema,
          g_optim |-> files[ckpt].g_optim, d_optim |-> files[ckpt].d_optim]

\* a dictionary with one more key set
SetKey(dict, key, val) ==
    [k \in DOMAIN dict \cup {key} |-> IF k = key THEN val ELSE dict[k]]

\* a rank at a statement that enters a collective (DDP backward, reduce_loss_dict)
AtCollective(r) ==
    \/ pc[r] \in {"d_step", "g_step", "reduce"}
    \/ /\ pc[r] = "r1"
       /\ args.d_reg_every # 0
       /\ DRegularize(GlobalIndex(r), args.d_reg_every)

\* a collective returns once every rank has entered it
CollectiveReady(r) ==
    \A q \in Ranks : \/ ncoll[q] > ncoll[r]
                     \/ ncoll[q] = ncoll[r] /\ AtCollective(q)

\* ------------------------------------------------- __main__ and train()
\* what __main__ and the head of train() set up on every rank
Started(a, files) ==
    LET m == LoadedModels(a.ckpt, files)
    IN  [args |-> a,
         disk |-> files,
         loaded |-> IF a.ckpt = None THEN NoCheckpoint ELSE files[a.ckpt],
         generator |-> m.g, discriminator |-> m.d, g_ema |-> m.g_ema,
         g_optim |-> m.g_optim, d_optim |-> m.d_optim,
         ada_aug_p |-> InitialAugP(a),
         r1_loss |-> ZeroTensor,
         req_grad |-> requires_grad(requires_grad(
                         [generator |-> TRUE, discriminator |-> TRUE,
                          text_encoder |-> TRUE, image_encoder |-> TRUE],
                         "text_encoder", FALSE), "image_encoder", FALSE),
         encoders |-> PretrainedEncoders]

NoSync == [seq |-> -1, grad |-> [k \in ParamNames |-> 0]]

NoLoss == [is_tensor |-> FALSE, terms |-> {}]

EmptyDict == [k \in {} |-> {}]

Init ==
    /\ samples = {}
    /\ resumes = 0
    /\ \E ckpt \in {None} \cup PriorPaths,
          extra \in -1 .. MaxExtra,
          every \in DRegEverys,
          aug \in BOOLEAN,
          p \in AugmentPs,
          cond \in BOOLEAN :
        LET st == Started([iter |-> StartIter(ckpt) + extra, start_iter |-> StartIter(ckpt),
                           d_reg_every |-> every, augment |-> aug, augment_p |-> p,
                           conditioned |-> cond, ckpt |-> ckpt],
                          IF ckpt = None THEN [f \in {} |-> PriorCheckpoint]
                          ELSE [f \in {ckpt} |-> PriorCheckpoint])
        IN  /\ args = st.args
            /\ disk = st.disk
            /\ loaded = st.loaded
            /\ generator = [r \in Ranks |-> st.generator]
            /\ discriminator = [r \in Ranks |-> st.discriminator]
            /\ g_ema = [r \in Ranks |-> st.g_ema]
            /\ g_optim = [r \in Ranks |-> st.g_optim]
            /\ d_optim = [r \in Ranks |-> st.d_optim]
            /\ ada_aug_p = [r \in Ranks |-> st.ada_aug_p]
            /\ r1_loss = [r \in Ranks |-> st.r1_loss]
            /\ req_grad = [r \in Ranks |-> st.req_grad]
            /\ encoders = [r \in Ranks |-> st.encoders]
            /\ gen_stepped = [r \in Ranks |-> st.generator]
    /\ sync = NoSync
    /\ pc = [r \in Ranks |-> "loop"]
    /\ idx = [r \in Ranks |-> 0]
    /\ d_loss = [r \in Ranks |-> NoLoss]
    /\ loss_dict = [r \in Ranks |-> EmptyDict]
    /\ ncoll = [r \in Ranks |-> 0]
    /\ log = [r \in Ranks |-> <<>>]
    /\ last_optim = [r \in Ranks |-> "none"]
    /\ ran = [r \in Ranks |-> <<>>]
    /\ crash = [r \in Ranks |-> "none"]
    /\ reduced_keys = [r \in Ranks |-> {}]

\* for idx in pbar: i = idx + args.start_iter; if i > args.iter: break
LoopHead(r) ==
    /\ pc[r] = "loop"
    /\ IF idx[r] < args.iter /\ ~(GlobalIndex(r) > args.iter)
       THEN pc' = [pc EXCEPT ![r] = "d_forward"]
       ELSE pc' = [pc EXCEPT ![r] = "done"]
    /\ log' = [log EXCEPT ![r] = <<>>]
    /\ UNCHANGED <<shared, idx, models, locals, ncoll, ghosts>>

\* requires_grad(...), generator and discriminator forward, d_loss and its loss_dict entries
DForward(r) ==
    LET i == GlobalIndex(r)
        aug == IF args.augment THEN <<"augment", "augment">> ELSE <<>>
    IN
    /\ pc[r] = "d_forward"
    /\ req_grad' = [req_grad EXCEPT ![r] =
           requires_grad(requires_grad(@, "generator", FALSE), "discriminator", TRUE)]
    /\ log' = [log EXCEPT ![r] = @ \o aug]
    /\ IF args.conditioned
       THEN /\ d_loss' = [d_loss EXCEPT ![r] = DLoss(args.conditioned, i)]
            /\ loss_dict' = [loss_dict EXCEPT ![r] =
                   SetKey(SetKey(SetKey(@, "d", DLoss(args.conditioned, i).terms),
                                 "real_score", {<<"real_pred", i>>}),
                          "fake_score", {<<"fake_pred", i>>})]
            /\ pc' = [pc EXCEPT ![r] = "d_step"]
            /\ UNCHANGED crash
       ELSE \* discriminator(fake_img, sent_emb): sent_emb is bound only when conditioned
            /\ pc' = [pc EXCEPT ![r] = "crashed"]
            /\ crash' = [crash EXCEPT ![r] = "UnboundLocalError"]
            /\ UNCHANGED <<d_loss, loss_dict>>
    /\ UNCHANGED <<shared, idx, models, ada_aug_p, r1_loss, ncoll,
                   last_optim, ran, gen_stepped, reduced_keys>>

\* the discriminator's backward pass without its optimizer step
DStepWithoutOptim(r) ==
    /\ pc[r] = "d_step"
    /\ d_loss[r].is_tensor
    /\ CollectiveReady(r)
    /\ ncoll' = [ncoll EXCEPT ![r] = @ + 1]
    /\ pc' = [pc EXCEPT ![r] = "tune"]
    /\ UNCHANGED <<shared, idx, models, locals, log, ghosts>>

\* discriminator.zero_grad(); d_loss.backward(); d_optim.step()
DStep(r) ==
    /\ pc[r] = "d_step"
    /\ IF d_loss[r].is_tensor
       THEN /\ CollectiveReady(r)
            /\ ncoll' = [ncoll EXCEPT ![r] = @ + 1]
            /\ discriminator' = [discriminator EXCEPT ![r] = @ + 1]
            /\ d_optim' = [d_optim EXCEPT ![r] = @ + 1]
            /\ last_optim' = [last_optim EXCEPT ![r] = "d"]
            /\ log' = [log EXCEPT ![r] = Append(@, "d_step")]
            /\ pc' = [pc EXCEPT ![r] = "tune"]
            /\ UNCHANGED crash
       ELSE \* the int 0 has no backward()
            /\ pc' = [pc EXCEPT ![r] = "crashed"]
            /\ crash' = [crash EXCEPT ![r] = "AttributeError"]
            /\ UNCHANGED <<ncoll, discriminator, d_optim, last_optim, log>>
    /\ UNCHANGED <<shared, idx, generator, g_ema, g_optim, encoders, locals,
                   ran, gen_stepped, reduced_keys>>

\* if args.augment and args.augment_p == 0: ada_aug_p = ada_augment.tune(real_pred)
Tune(r) ==
    /\ pc[r] = "tune"
    /\ IF Adaptive(args)
       THEN /\ \E p \in TuneResults : ada_aug_p' = [ada_aug_p EXCEPT ![r] = p]
            /\ log' = [log EXCEPT ![r] = Append(@, "tune")]
       ELSE UNCHANGED <<ada_aug_p, log>>
    /\ pc' = [pc EXCEPT ![r] = "r1"]
    /\ UNCHANGED <<shared, idx, models, r1_loss, d_loss, loss_dict, req_grad, ncoll, ghosts>>

\* d_regularize = i % args.d_reg_every == 0; the R1 step; loss_dict["r1"] = r1_loss
R1Step(r) ==
    LET i == GlobalIndex(r)
    IN
    /\ pc[r] = "r1"
    /\ IF args.d_reg_every = 0
       THEN /\ pc' = [pc EXCEPT ![r] = "crashed"]
            /\ crash' = [crash EXCEPT ![r] = "ZeroDivisionError"]
            /\ UNCHANGED <<ncoll, discriminator, d_optim, last_optim, log, r1_loss, loss_dict>>
       ELSE /\ IF DRegularize(i, args.d_reg_every)
               THEN /\ CollectiveReady(r)
                    /\ ncoll' = [ncoll EXCEPT ![r] = @ + 1]
                    /\ r1_loss' = [r1_loss EXCEPT ![r] = {<<"r1", i>>}]
                    /\ discriminator' = [discriminator EXCEPT ![r] = @ + 1]
                    /\ d_optim' = [d_optim EXCEPT ![r] = @ + 1]
                    /\ last_optim' = [last_optim EXCEPT ![r] = "d"]
                    /\ log' = [log EXCEPT ![r] =
                           @ \o (IF args.augment THEN <<"augment">> ELSE <<>>) \o <<"r1_step">>]
               ELSE UNCHANGED <<ncoll, r1_loss, discriminator, d_optim, last_optim, log>>
            /\ loss_dict' = [loss_dict EXCEPT ![r] = SetKey(@, "r1", r1_loss'[r])]
            /\ pc' = [pc EXCEPT ![r] = "g_step"]
            /\ UNCHANGED crash
    /\ UNCHANGED <<shared, idx, generator, g_ema, g_optim, encoders, ada_aug_p, d_loss, req_grad,
                   ran, gen_stepped, reduced_keys>>

\* requires_grad(...), g_loss with the sentence loss, generator.zero_grad(),
\* g_loss.backward(), g_optim.step()
GStep(r) ==
    LET i == GlobalIndex(r)
    IN
    /\ pc[r] = "g_step"
    /\ CollectiveReady(r)
    /\ \E grad \in Grads :
         /\ sync.seq = ncoll[r] => grad = sync.grad
         /\ sync' = [seq |-> ncoll[r], grad |-> grad]
         /\ generator' = [generator EXCEPT ![r] = [k \in ParamNames |-> @[k] - grad[k]]]
    /\ gen_stepped' = [gen_stepped EXCEPT ![r] = generator'[r]]
    /\ ncoll' = [ncoll EXCEPT ![r] = @ + 1]
    /\ req_grad' = [req_grad EXCEPT ![r] =
           requires_grad(requires_grad(@, "generator", TRUE), "discriminator", FALSE)]
    /\ loss_dict' = [loss_dict EXCEPT ![r] =
           SetKey(SetKey(@, "g", {<<"g_nonsaturating", i>>} \cup {<<"sent", i>>}),
                  "sent", {<<"sent", i>>})]
    /\ g_optim' = [g_optim EXCEPT ![r] = @ + 1]
    /\ last_optim' = [last_optim EXCEPT ![r] = "g"]
    /\ log' = [log EXCEPT ![r] =
           @ \o (IF args.augment THEN <<"augment">> ELSE <<>>) \o <<"g_step">>]
    /\ pc' = [pc EXCEPT ![r] = "accumulate"]
    /\ UNCHANGED <<args, disk, samples, resumes, loaded, idx, discriminator, g_ema, d_optim, encoders,
                   ada_aug_p, r1_loss, d_loss, ran, crash, reduced_keys>>

\* accumulate(g_ema, g_module, accum)
Accumulate(r) ==
    /\ pc[r] = "accumulate"
    /\ g_ema' = [g_ema EXCEPT ![r] = accumulate(@, generator[r], AccumNum)]
    /\ log' = [log EXCEPT ![r] = Append(@, "accumulate")]
    /\ pc' = [pc EXCEPT ![r] = "reduce"]
    /\ UNCHANGED <<shared, idx, generator, discriminator, g_optim, d_optim, encoders, locals,
                   ncoll, ghosts>>

\* reduce_loss_dict called by rank 0 only
ReduceOnRank0(r) ==
    /\ pc[r] = "reduce"
    /\ IF r = 0
       THEN /\ CollectiveReady(r)
            /\ ncoll' = [ncoll EXCEPT ![r] = @ + 1]
            /\ reduced_keys' = [reduced_keys EXCEPT ![r] = DOMAIN loss_dict[r]]
            /\ log' = [log EXCEPT ![r] = Append(@, "reduce")]
       ELSE UNCHANGED <<ncoll, reduced_keys, log>>
    /\ pc' = [pc EXCEPT ![r] = "rank0"]
    /\ UNCHANGED <<shared, idx, models, locals, last_optim, ran, crash, gen_stepped>>

\* loss_reduced = reduce_loss_dict(loss_dict) and the values read from it
Reduce(r) ==
    /\ pc[r] = "reduce"
    /\ CollectiveReady(r)
    /\ LossKeys \subseteq DOMAIN loss_dict[r]
    /\ ncoll' = [ncoll EXCEPT ![r] = @ + 1]
    /\ reduced_keys' = [reduced_keys EXCEPT ![r] = DOMAIN loss_dict[r]]
    /\ log' = [log EXCEPT ![r] = Append(@, "reduce")]
    /\ pc' = [pc EXCEPT ![r] = "rank0"]
    /\ UNCHANGED <<shared, idx, models, locals, last_optim, ran, crash, gen_stepped>>

\* if get_rank() == 0: progress text, sample every 100, checkpoint every 10000
Rank0Block(r) ==
    LET i == GlobalIndex(r)
        s == ShouldSample(r, i)
        c == ShouldCheckpoint(r, i)
    IN
    /\ pc[r] = "rank0"
    /\ samples' = IF s THEN samples \cup {[path |-> SamplePath(i), rank |-> r]} ELSE samples
    /\ disk' = IF c THEN SetKey(disk, CheckpointPath(i), CheckpointContent(r)) ELSE disk
    /\ log' = [log EXCEPT ![r] = @ \o (IF s THEN <<"sample">> ELSE <<>>)
                                   \o (IF c THEN <<"checkpoint">> ELSE <<>>)]
    /\ ran' = [ran EXCEPT ![r] = Append(@, i)]
    /\ idx' = [idx EXCEPT ![r] = @ + 1]
    /\ pc' = [pc EXCEPT ![r] = "loop"]
    /\ UNCHANGED <<args, resumes, loaded, sync, models, locals, ncoll,
                   last_optim, crash, gen_stepped, reduced_keys>>

\* the run is stopped between iterations (or has ended) and started again with
\* --ckpt naming a file of the checkpoint directory
Resume ==
    /\ resumes < MaxResumes
    /\ \A r \in Ranks : pc[r] \in {"loop", "done", "crashed"}
    /\ \A r, q \in Ranks : idx[r] = idx[q]
    /\ \E ckpt \in DOMAIN disk :
        LET st == Started([args EXCEPT !.ckpt = ckpt, !.start_iter = StartIter(ckpt)], disk)
        IN  /\ args' = st.args
            /\ loaded' = st.loaded
            /\ generator' = [r \in Ranks |-> st.generator]
            /\ discriminator' = [r \in Ranks |-> st.discriminator]
            /\ g_ema' = [r \in Ranks |-> st.g_ema]
            /\ g_optim' = [r \in Ranks |-> st.g_optim]
            /\ d_optim' = [r \in Ranks |-> st.d_optim]
            /\ ada_aug_p' = [r \in Ranks |-> st.ada_aug_p]
            /\ r1_loss' = [r \in Ranks |-> st.r1_loss]
            /\ req_grad' = [r \in Ranks |-> st.req_grad]
            /\ encoders' = [r \in Ranks |-> st.encoders]
            /\ gen_stepped' = [r \in Ranks |-> st.generator]
    /\ resumes' = resumes + 1
    /\ sync' = NoSync
    /\ pc' = [r \in Ranks |-> "loop"]
    /\ idx' = [r \in Ranks |-> 0]
    /\ d_loss' = [r \in Ranks |-> NoLoss]
    /\ loss_dict' = [r \in Ranks |-> EmptyDict]
    /\ ncoll' = [r \in Ranks |-> 0]
    /\ log' = [r \in Ranks |-> <<>>]
    /\ last_optim' = [r \in Ranks |-> "none"]
    /\ ran' = [r \in Ranks |-> <<>>]
    /\ crash' = [r \in Ranks |-> "none"]
    /\ reduced_keys' = [r \in Ranks |-> {}]
    /\ UNCHANGED <<disk, samples>>

Next ==
    \/ \E r \in Ranks : LoopHead(r)
    \/ \E r \in Ranks : DForward(r)
    \/ \E r \in Ranks : DStep(r)
    \/ \E r \in Ranks : Tune(r)
    \/ \E r \in Ranks : R1Step(r)
    \/ \E r \in Ranks : GStep(r)
    \/ \E r \in Ranks : Accumulate(r)
    \/ \E r \in Ranks : Reduce(r)
    \/ \E r \in Ranks : Rank0Block(r)
    \/ Resume

Spec == Init /\ [][Next]_vars


\* --------------------------------------------------------------- claims
Count(seq, e) == Cardinality({k \in 1..Len(seq) : seq[k] = e})

Has(seq, e) == \E k \in 1..Len(seq) : seq[k] = e

\* every e1 of the sequence comes before every e2
Before(seq, e1, e2) ==
    \A k, m \in 1..Len(seq) : seq[k] = e1 /\ seq[m] = e2 => k < m

\* rank r has just run an iteration to its end; log[r] lists what it did
IterationEnded(r) == pc[r] = "loop" /\ idx[r] > 0

\* the global index of the iteration rank r ran last
LastIndex(r) == ran[r][Len(ran[r])]

Abs(n) == IF n < 0 THEN 0 - n ELSE n

Divides(n, i) == n # 0 /\ i % Abs(n) = 0

\* C1: in every iteration run to its end the discriminator's main step happens
\* exactly once and before the generator's step, which happens exactly once, and
\* g_optim.step is never called when the previous optimizer step was g_optim's
C1_Alternation ==
    \A r \in Ranks :
        /\ Count(log[r], "d_step") <= 1
        /\ Count(log[r], "g_step") <= 1
        /\ Has(log[r], "g_step") => Has(log[r], "d_step")
        /\ Before(log[r], "d_step", "g_step")
        /\ pc[r] = "g_step" => last_optim[r] = "d"
        /\ pc[r] = "accumulate" => last_optim[r] = "g"
        /\ IterationEnded(r) =>
              Count(log[r], "d_step") = 1 /\ Count(log[r], "g_step") = 1

C1_Witness ==
    \E r \in Ranks : IterationEnded(r) /\ Len(ran[r]) >= 2 /\ Has(log[r], "r1_step")

\* the value loss_dict["r1"] must hold after the iterations listed in done
ExpectedR1(done, every) ==
    LET hits == {k \in 1..Len(done) : Divides(every, done[k])}
    IN  IF hits = {} THEN ZeroTensor
        ELSE {<<"r1", done[CHOOSE k \in hits : \A m \in hits : m <= k]>>}

\* C2: the R1 step runs exactly in the iterations whose global index is a multiple
\* of d_reg_every, after the main discriminator step and before the generator step;
\* elsewhere d_optim steps once; loss_dict["r1"] holds the last R1 value, 0.0 if none
C2_R1Interval ==
    \A r \in Ranks :
        IterationEnded(r) =>
            /\ Has(log[r], "r1_step") <=> Divides(args.d_reg_every, LastIndex(r))
            /\ Count(log[r], "r1_step") <= 1
            /\ Before(log[r], "d_step", "r1_step")
            /\ Before(log[r], "r1_step", "g_step")
            /\ Count(log[r], "d_step") = 1
            /\ loss_dict[r]["r1"] = ExpectedR1(ran[r], args.d_reg_every)

C2_Witness ==
    \E r \in Ranks :
        /\ IterationEnded(r)
        /\ ~Has(log[r], "r1_step")
        /\ loss_dict[r]["r1"] # ZeroTensor

\* p1 is decay * p + (1 - decay) * q, rounded down to the fixed-point grid
IsMovingAverage(p1, p, q) ==
    LET t == AccumNum * p + (AccumDen - AccumNum) * q
    IN  AccumDen * p1 <= t /\ t < AccumDen * p1 + AccumDen

C3_Order ==
    \A r \in Ranks :
        /\ Before(log[r], "g_step", "accumulate")
        /\ Before(log[r], "accumulate", "sample")
        /\ Before(log[r], "accumulate", "checkpoint")
        /\ IterationEnded(r) => Count(log[r], "accumulate") = 1

C3_Update ==
    \A r \in Ranks :
        /\ (g_ema'[r] # g_ema[r] /\ resumes' = resumes) => pc[r] = "accumulate"
        /\ (pc[r] = "accumulate" /\ pc'[r] # "accumulate") =>
              /\ \A k \in ParamNames : IsMovingAverage(g_ema'[r][k], g_ema[r][k], gen_stepped[r][k])
              /\ generator'[r] = generator[r]
              /\ generator[r] = gen_stepped[r]

\* C3: accumulate runs once per iteration, after g_optim.step and before any sample
\* or checkpoint; it sets every g_ema parameter to decay*p + (1-decay)*q for the
\* generator's q after its step, leaves the generator alone, and nothing else in
\* the loop changes g_ema
C3_EmaTracks == []C3_Order /\ [][C3_Update]_vars

C3_Witness ==
    \E r \in Ranks : pc[r] = "reduce" /\ idx[r] >= 1 /\ g_ema[r] # generator[r]

\* digits is the decimal form of i, padded with zeros to six digits
IsPaddedName(digits, i) ==
    /\ Len(digits) >= NameWidth
    /\ \A k \in 1..Len(digits) : digits[k] \in DigitSet
    /\ DigitsVal(digits) = i
    /\ Len(digits) > NameWidth => digits[1] # "0"

IsFileOf(path, dir, ext, i) ==
    /\ Len(path) >= Len(dir) + Len(ext) + NameWidth
    /\ SubSeq(path, 1, Len(dir)) = dir
    /\ SubSeq(path, Len(path) - Len(ext) + 1, Len(path)) = ext
    /\ IsPaddedName(SubSeq(path, Len(dir) + 1, Len(path) - Len(ext)), i)

\* C4: an iteration with global index i writes sample/<i padded>.png iff the rank
\* is 0 and i % 100 == 0, and checkpoint/<i padded>.pt iff the rank is 0 and
\* i % 10000 == 0, both after the discriminator step, the generator step and the
\* EMA update; no other rank writes either
C4_Persistence ==
    /\ \A s \in samples : s.rank = 0
    /\ \A r \in Ranks :
        /\ Before(log[r], "d_step", "sample") /\ Before(log[r], "d_step", "checkpoint")
        /\ Before(log[r], "g_step", "sample") /\ Before(log[r], "g_step", "checkpoint")
        /\ Before(log[r], "accumulate", "sample") /\ Before(log[r], "accumulate", "checkpoint")
        /\ IterationEnded(r) =>
            LET i == LastIndex(r)
            IN  /\ Has(log[r], "sample") <=> (r = 0 /\ i % 100 = 0)
                /\ Has(log[r], "checkpoint") <=> (r = 0 /\ i % 10000 = 0)
                /\ Has(log[r], "sample") =>
                      \E s \in samples : IsFileOf(s.path, SampleDir, PngExt, i)
                /\ Has(log[r], "checkpoint") =>
                      \E f \in DOMAIN disk :
                          /\ IsFileOf(f, CheckpointDir, PtExt, i)
                          /\ disk[f].saved_by = "train" /\ disk[f].saved_i = i

C4_Witness ==
    /\ IterationEnded(0) /\ Has(log[0], "sample") /\ ~Has(log[0], "checkpoint")
    /\ \E r \in Ranks : r # 0 /\ IterationEnded(r) /\ LastIndex(r) % 100 = 0


\* C5: for 0 <= start_iter <= iter, train() ends having executed exactly the
\* iterations with global index start_iter, ..., iter - 1
C5_ExactIterations ==
    \A r \in Ranks :
        (pc[r] = "done" /\ 0 <= args.start_iter /\ args.start_iter <= args.iter) =>
            ran[r] = [k \in 1..(args.iter - args.start_iter) |-> args.start_iter + k - 1]

\* C6: the name train() gives the checkpoint of iteration i is parsed back by the
\* resume code to start_iter = i, also when i has more than six digits
C6_NameRoundTrip ==
    /\ \A f \in DOMAIN disk :
          disk[f].saved_by = "train" =>
              /\ ParseInt(SplitExtRoot(Basename(f))).ok
              /\ ParseInt(SplitExtRoot(Basename(f))).val = disk[f].saved_i
    /\ loaded.saved_by = "train" => args.start_iter = loaded.saved_i

C6_Witness ==
    /\ loaded.saved_by = "train"
    /\ loaded.saved_i >= 1000000
    /\ \E r \in Ranks : pc[r] = "d_forward"

\* C7: the first iteration after a resume from a checkpoint written by train() runs
\* with the generator, discriminator, g_ema, both optimizers and ada_aug_p stored
\* in that checkpoint
C7_ResumeRestores ==
    \A r \in Ranks :
        (loaded.saved_by = "train" /\ idx[r] = 0 /\ pc[r] = "d_forward") =>
            /\ generator[r] = loaded.g
            /\ discriminator[r] = loaded.d
            /\ g_ema[r] = loaded.g_ema
            /\ g_optim[r] = loaded.g_optim
            /\ d_optim[r] = loaded.d_optim
            /\ ada_aug_p[r] = loaded.ada_aug_p

C8_Schedule ==
    \A r \in Ranks :
        /\ (args.augment /\ args.augment_p = 0) =>
              /\ (idx[r] = 0 /\ pc[r] \in {"loop", "d_forward", "d_step", "tune"}) =>
                    ada_aug_p[r] = 0
              /\ Before(log[r], "d_step", "tune")
              /\ Before(log[r], "tune", "r1_step")
              /\ Before(log[r], "tune", "g_step")
              /\ pc[r] \in {"r1", "g_step"} => Count(log[r], "tune") = 1
              /\ IterationEnded(r) => Count(log[r], "tune") = 1
        /\ args.augment_p > 0 =>
              ~Has(log[r], "tune") /\ ada_aug_p[r] = args.augment_p
        /\ ~args.augment => ~Has(log[r], "augment")

C8_OnlyTune ==
    \A r \in Ranks :
        (ada_aug_p'[r] # ada_aug_p[r] /\ resumes' = resumes) =>
            pc[r] = "tune" /\ args.augment /\ args.augment_p = 0

\* C8: with --augment and augment_p == 0, ada_aug_p starts at 0.0 and is replaced by
\* tune() once per iteration, after the main discriminator step and before the R1
\* and generator steps; with augment_p > 0 tune is never called and ada_aug_p stays
\* augment_p; without --augment no image is augmented
C8_AugmentSchedule == []C8_Schedule /\ [][C8_OnlyTune]_vars

C8_Witness ==
    \E r \in Ranks :
        /\ args.augment /\ args.augment_p = 0
        /\ IterationEnded(r)
        /\ Has(log[r], "r1_step")
        /\ ada_aug_p[r] # 0

\* C9: every iteration composes and back-propagates a discriminator loss holding the
\* logistic term, plus the two BCE terms exactly when conditioned; with
\* conditioned = False the loss is the logistic term alone
C9_DLossComposition ==
    \A r \in Ranks :
        /\ crash[r] \notin {"UnboundLocalError", "AttributeError"}
        /\ pc[r] \in {"d_step", "tune"} =>
              /\ d_loss[r].is_tensor
              /\ d_loss[r].terms =
                    IF args.conditioned
                    THEN {<<"d_logistic", GlobalIndex(r)>>, <<"bce_fake", GlobalIndex(r)>>,
                          <<"bce_real", GlobalIndex(r)>>}
                    ELSE {<<"d_logistic", GlobalIndex(r)>>}

\* the collectives a rank has passed after the iterations listed in done
RECURSIVE CollectivesOf(_, _)
CollectivesOf(done, every) ==
    IF Len(done) = 0 THEN 0
    ELSE CollectivesOf(SubSeq(done, 1, Len(done) - 1), every)
         + (IF Divides(every, done[Len(done)]) THEN 4 ELSE 3)

C10_Ranks ==
    \A r, q \in Ranks :
        /\ (pc[r] = "done" /\ pc[q] = "done") => ran[r] = ran[q]
        /\ (IterationEnded(r) /\ IterationEnded(q) /\ idx[r] = idx[q]) =>
              (Has(log[r], "r1_step") <=> Has(log[q], "r1_step"))
        /\ IterationEnded(r) =>
              /\ Count(log[r], "reduce") = 1
              /\ reduced_keys[r] = {"d", "real_score", "fake_score", "r1", "g", "sent"}
              /\ ncoll[r] = CollectivesOf(ran[r], args.d_reg_every)
        /\ (AtCollective(r) /\ pc[q] \in {"done", "crashed"}) => ncoll[q] > ncoll[r]
        /\ (AtCollective(r) /\ AtCollective(q) /\ ncoll[r] = ncoll[q]) => pc[r] = pc[q]
        /\ ncoll[q] <= ncoll[r] + 1

C10_Rank0BlockLocal ==
    \A r \in Ranks : pc[r] = "rank0" => ncoll'[r] = ncoll[r] \/ resumes' # resumes

\* C10: all ranks run the same iterations and take the R1 branch in the same ones,
\* each calls reduce_loss_dict once per iteration with the six keys, no rank waits
\* in a collective another rank never enters, and the rank-0 block has no collective
C10_Synchronized == []C10_Ranks /\ [][C10_Rank0BlockLocal]_vars

C10_Witness ==
    /\ \A r \in Ranks : pc[r] = "done" /\ Len(ran[r]) >= 2
    /\ \E k \in 1..Len(ran[0]) : Divides(args.d_reg_every, ran[0][k])
    /\ \E k \in 1..Len(ran[0]) : ~Divides(args.d_reg_every, ran[0][k])


C11_Flags ==
    \A r \in Ranks :
        /\ pc[r] \in {"d_step", "tune", "r1"} =>
              ~req_grad[r].generator /\ req_grad[r].discriminator
        /\ pc[r] = "accumulate" =>
              req_grad[r].generator /\ ~req_grad[r].discriminator
        /\ ~req_grad[r].text_encoder /\ ~req_grad[r].image_encoder
        /\ encoders[r] = [text_encoder |-> "NET_E", image_encoder |-> "NET_E_image"]

C11_AtSteps ==
    \A r \in Ranks :
        resumes' = resumes =>
            /\ d_optim'[r] # d_optim[r] =>
                  /\ ~req_grad[r].generator /\ req_grad[r].discriminator
                  /\ req_grad'[r] = req_grad[r]
            /\ g_optim'[r] # g_optim[r] =>
                  req_grad'[r].generator /\ ~req_grad'[r].discriminator
            /\ encoders'[r] = encoders[r]
            /\ req_grad'[r].text_encoder = req_grad[r].text_encoder
            /\ req_grad'[r].image_encoder = req_grad[r].image_encoder

\* C11: at every d_optim.step (main or R1) the generator's parameters do not require
\* gradients and the discriminator's do; at every g_optim.step it is the other way
\* round; the encoders' parameters never require gradients and never change
C11_GradientFlags == []C11_Flags /\ [][C11_AtSteps]_vars

C11_Witness ==
    \E r \in Ranks :
        /\ pc[r] = "r1"
        /\ idx[r] >= 1
        /\ Divides(args.d_reg_every, GlobalIndex(r))
        /\ last_optim[r] = "d"


\* the characters of name are decimal digits, at least one
IsNumber(name) == Len(name) > 0 /\ \A k \in 1..Len(name) : name[k] \in DigitSet

\* the checkpoint file name without directory and extension
CkptRoot == SubSeq(args.ckpt, Len(CheckpointDir) + 1, Len(args.ckpt) - Len(PtExt))

\* C12: with --ckpt naming a file whose base name is no integer, start_iter stays 0
\* and the generator, discriminator, g_ema and both optimizers are still loaded, so
\* training restarts at global index 0 with the loaded weights; with an integer name
\* start_iter is that integer
C12_ResumeByName ==
    args.ckpt # None =>
        /\ IsNumber(CkptRoot) => args.start_iter = DigitsVal(CkptRoot)
        /\ ~IsNumber(CkptRoot) => args.start_iter = 0
        /\ \A r \in Ranks :
              /\ (idx[r] = 0 /\ pc[r] \in {"loop", "d_forward", "d_step"}) =>
                    /\ generator[r] = loaded.g
                    /\ discriminator[r] = loaded.d
                    /\ g_ema[r] = loaded.g_ema
                    /\ g_optim[r] = loaded.g_optim
                    /\ d_optim[r] = loaded.d_optim
                    /\ loaded.saved_by # "none"
              /\ (~IsNumber(CkptRoot) /\ Len(ran[r]) > 0) => ran[r][1] = 0

C12_Witness ==
    /\ args.ckpt # None
    /\ ~IsNumber(CkptRoot)
    /\ \E r \in Ranks : IterationEnded(r) /\ ran[r] = <<0>> /\ discriminator[r] > loaded.d

====
